---- MODULE Spec2Model ----
(***************************************************************************)
(* Model of the Youtube Preact component of amp-youtube 1.0                *)
(* (src/extensions/amp-youtube/1.0/component.js): the render function      *)
(* YoutubeWithRef, the inbound message handler onMessage and the iframe    *)
(* load handler onIframeLoad.                                              *)
(*                                                                         *)
(* JavaScript values that reach the handlers are tagged records            *)
(* [t, n]; an absent object key is `undefined`.  Objects (params, info,    *)
(* the player-state record) are functions from their keys.  The effects a  *)
(* handler has on the iframe (dispatchCustomEvent, postMessage) are        *)
(* recorded, in call order, in `effects`.                                  *)
(***************************************************************************)
EXTENDS Integers, Sequences, FiniteSets

\* ---------------------------------------------------------------- bounds
MaxTime == 1      \* numeric values carried by currentTime / duration
MaxCode == 5      \* playerState codes range over -1..MaxCode
MaxRenders == 2   \* renders of one mounted component

\* ------------------------------------------------------------- JS values
Undefined == [t |-> "undefined", n |-> 0]
Null == [t |-> "null", n |-> 0]
NaN == [t |-> "NaN", n |-> 0]
Num(n) == [t |-> "number", n |-> n]
Bool(b) == [t |-> "boolean", n |-> IF b THEN 1 ELSE 0]

EmptyObj == [k \in {} |-> Undefined]
Get(o, k) == IF k \in DOMAIN o THEN o[k] ELSE Undefined
Put(o, k, v) == [x \in DOMAIN o \cup {k} |-> IF x = k THEN v ELSE o[x]]
Del(o, k) == [x \in DOMAIN o \ {k} |-> o[x]]

\* v != null  (loose: neither null nor undefined)
NotNullish(v) == v.t \notin {"null", "undefined"}
\* v != undefined (loose, line 171)
LooseNotUndefined(v) == v.t \notin {"null", "undefined"}
\* v == 0 (loose, line 160) for the value kinds modelled
LooseEqZero(v) == v.t \in {"number", "boolean"} /\ v.n = 0
Truthy(v) ==
  CASE v.t = "number" -> v.n # 0
    [] v.t = "boolean" -> v.n = 1
    [] OTHER -> FALSE

\* Number.prototype.toString for the codes in range
numberToString(n) ==
  CASE n = -1 -> "-1" [] n = 0 -> "0" [] n = 1 -> "1" [] n = 2 -> "2"
    [] n = 3 -> "3" [] n = 4 -> "4" [] n = 5 -> "5" [] n = 6 -> "6"
    [] n = 7 -> "7" [] n = 8 -> "8" [] OTHER -> "9"

\* ------------------------------------------------------ module constants
PlayerStatesPlay ==
  [k \in {"-1", "0", "1", "2", "3", "5"} |->
    CASE k = "-1" -> "unstarted"
      [] k = "0" -> "ended"
      [] k = "1" -> "play"
      [] k = "2" -> "pause"
      [] k = "3" -> "buffering"
      [] OTHER -> "video_cued"]

PlayerStates ==
  [k \in {"-1", "0", "1", "2", "3", "5"} |->
    CASE k = "-1" -> "unstarted"
      [] k = "0" -> "ended"
      [] k = "1" -> "playing"
      [] k = "2" -> "pause"
      [] k = "3" -> "buffering"
      [] OTHER -> "video_cued"]

HIDE_ANNOTATION == 3

createDefaultInfo == [currentTime |-> Num(0), duration |-> NaN]

\* ------------------------------------------------------------ the inputs
IDs == {"", "a b"}                     \* "" stands for absent / empty
Credentials == {"", "omit"}
ParamKeys == {"playsinline", "autoplay", "iv_load_policy", "loop", "playlist"}
ParamValues(k) ==
  CASE k = "playsinline" -> {"0", "1"}
    [] k = "autoplay" -> {"1"}
    [] k = "iv_load_policy" -> {"1"}
    [] k = "loop" -> {"0", "1"}
    [] OTHER -> {"x"}
AllParamValues == UNION {ParamValues(k) : k \in ParamKeys}
ParamMaps ==
  UNION {{f \in [D -> AllParamValues] : \A k \in D : f[k] \in ParamValues(k)} :
          D \in SUBSET ParamKeys}
LoopParamMaps ==
  {f \in ParamMaps : DOMAIN f \subseteq {"loop", "playlist"} /\ \A k \in DOMAIN f : f[k] # "0"}

Events == {"initialDelivery", "infoDelivery", "onStateChange"}
TimeValues == {Undefined, Null} \cup {Num(n) : n \in 1..MaxTime}
DurationValues == {Undefined, Num(MaxTime)}
StateValues == {Undefined, Null} \cup {Num(n) : n \in -1..MaxCode}
MutedValues == {Undefined, Bool(TRUE), Bool(FALSE)}

\* info object built from its four fields, leaving out the undefined ones
MkInfo(ct, du, ps, mu) ==
  LET all == [currentTime |-> ct, duration |-> du, playerState |-> ps, muted |-> mu]
      D == {k \in DOMAIN all : all[k] # Undefined}
  IN [k \in D |-> all[k]]

VARIABLES
  videoid, liveChannelid, credentials, autoplay, loop,  \* props
  params,          \* the params object of the props (mutated by render)
  status,          \* "init" | "rendered" | "threw"
  renders,         \* number of renders so far
  calls,           \* calls made by the latest render, in order
  paramsIn,        \* params as the latest render received it
  src,             \* src passed to VideoWrapper by the latest render
  autoplayOut,     \* autoplay passed to VideoWrapper by the latest render
  loopEff,         \* loop as captured by the latest onMessage closure
  first,           \* src / autoplay / loop of the first successful render
  playerStateRef,  \* playerStateRef.current (EmptyObj while undefined)
  last,            \* the handler that ran last
  lastMsg,         \* what the latest onMessage received
  effects,         \* effects on the iframe of the latest handler run
  delivered        \* latest non-null tracked values sent by infoDelivery

vars == <<videoid, liveChannelid, credentials, autoplay, loop, params, status,
          renders, calls, paramsIn, src, autoplayOut, loopEff, first,
          playerStateRef, last, lastMsg, effects, delivered>>

props == <<videoid, liveChannelid, credentials, autoplay, loop>>

\* ------------------------------------------------------------- rendering
DatasourceExistsEither(v, l) == v # "" \/ l # ""

DatasourceExists(v, l) == ~(v # "" /\ l # "") /\ (v # "" \/ l # "")

encodeURIComponent(s) == IF s = "a b" THEN "a%20b" ELSE s

\* the URL as host, path and the set of its query pairs
getEmbedUrl(cred, v, l) ==
  LET urlSuffix == IF cred = "omit" THEN "-nocookie" ELSE ""
      base == {<<"enablejsapi", "1">>, <<"amp", "1">>}
  IN IF v # ""
       THEN [host |-> <<"www.youtube", urlSuffix, ".com">>,
             path |-> <<"embed", encodeURIComponent(v)>>,
             query |-> base]
       ELSE [host |-> <<"www.youtube", urlSuffix, ".com">>,
             path |-> <<"embed", "live_stream">>,
             query |-> base \cup {<<"channel", encodeURIComponent(l)>>}]

addParamsToUrl(url, p) ==
  [url EXCEPT !.query = @ \cup {<<k, p[k]>> : k \in DOMAIN p}]

ApplyAutoplayKeepInline(p, ap) ==
  LET p1 == IF "playsinline" \notin DOMAIN p THEN Put(p, "playsinline", "1") ELSE p
      hasKey == "autoplay" \in DOMAIN p1
      p2 == IF hasKey THEN Del(p1, "autoplay") ELSE p1
      ap2 == IF hasKey THEN TRUE ELSE ap
      p3 == IF ap2 /\ "iv_load_policy" \notin DOMAIN p2
              THEN Put(p2, "iv_load_policy", numberToString(HIDE_ANNOTATION)) ELSE p2
  IN [params |-> p3, autoplay |-> ap2]

\* lines 97-112: playsinline default, autoplay param, autoplay overrides
ApplyAutoplay(p, ap) ==
  LET p1 == IF "playsinline" \notin DOMAIN p THEN Put(p, "playsinline", "1") ELSE p
      hasKey == "autoplay" \in DOMAIN p1
      p2 == IF hasKey THEN Del(p1, "autoplay") ELSE p1
      ap2 == IF hasKey THEN TRUE ELSE ap
      p3 == IF ap2 /\ "iv_load_policy" \notin DOMAIN p2
              THEN Put(p2, "iv_load_policy", numberToString(HIDE_ANNOTATION)) ELSE p2
      p4 == IF ap2 THEN Put(p3, "playsinline", "1") ELSE p3
  IN [params |-> p4, autoplay |-> ap2]

ApplyLoopNoPlaylistCheck(p, lp) ==
  LET hasKey == "loop" \in DOMAIN p
      lp2 == IF hasKey THEN TRUE ELSE lp
      p1 == IF hasKey THEN Del(p, "loop") ELSE p
      p2 == IF lp2 THEN Put(p1, "loop", "1") ELSE p1
  IN [params |-> p2, loop |-> lp2]

\* lines 114-125: loop param, loop / playlist interaction
ApplyLoop(p, lp) ==
  LET hasKey == "loop" \in DOMAIN p
      lp2 == IF hasKey THEN TRUE ELSE lp
      p1 == IF hasKey THEN Del(p, "loop") ELSE p
      p2 == IF lp2
              THEN IF "playlist" \in DOMAIN p1 THEN Put(p1, "loop", "1")
                   ELSE IF "loop" \in DOMAIN p1 THEN Del(p1, "loop") ELSE p1
              ELSE p1
  IN [params |-> p2, loop |-> lp2]

NoUrl == [host |-> <<>>, path |-> <<>>, query |-> {}]
NoMsg == [parsed |-> FALSE, event |-> "", hasInfo |-> FALSE,
          playerState |-> Undefined, muted |-> Undefined]

Render ==
  /\ status # "threw"
  /\ renders < MaxRenders
  /\ renders' = renders + 1
  /\ paramsIn' = params
  /\ last' = "render"
  /\ IF ~DatasourceExists(videoid, liveChannelid)
       THEN /\ status' = "threw"
            /\ calls' = <<>>
            /\ UNCHANGED <<params, src, autoplayOut, loopEff, first, playerStateRef>>
       ELSE LET url == getEmbedUrl(credentials, videoid, liveChannelid)
                a == ApplyAutoplay(params, autoplay)
                l == ApplyLoop(a.params, loop)
                out == addParamsToUrl(url, l.params)
            IN /\ status' = "rendered"
               /\ params' = l.params
               /\ src' = out
               /\ autoplayOut' = a.autoplay
               /\ loopEff' = l.loop
               /\ first' = IF renders = 0
                             THEN [src |-> out, autoplay |-> a.autoplay, loop |-> l.loop]
                             ELSE first
               /\ playerStateRef' = IF playerStateRef = EmptyObj
                                      THEN createDefaultInfo ELSE playerStateRef
               /\ calls' = IF playerStateRef = EmptyObj
                             THEN <<"getEmbedUrl", "addParamsToUrl", "useRef", "createDefaultInfo">>
                             ELSE <<"getEmbedUrl", "addParamsToUrl", "useRef">>
  /\ UNCHANGED <<props, lastMsg, effects, delivered>>

\* --------------------------------------------------------------- effects
\* dispatchVideoEvent: the event the iframe receives; the DOM coerces the
\* name to a string, so a name of undefined gives the type "undefined"
Dispatch(name) == [kind |-> "dispatchCustomEvent", arg |-> <<name>>]
\* PlayerStates[key], undefined for a key the table lacks
PlayerStateName(key) ==
  IF key \in DOMAIN PlayerStates THEN PlayerStates[key] ELSE "undefined"
Post(msg) == [kind |-> "postMessage", arg |-> msg]
PlayVideoCommand == <<<<"event", "command">>, <<"func", "playVideo">>>>
ListeningMessage == <<<<"event", "listening">>>>

\* src/iframe-video mutedOrUnmutedEvent
mutedOrUnmutedEvent(isMuted) == IF Truthy(isMuted) THEN "muted" ELSE "unmuted"

\* src/iframe-video objOrParseJson: an object as is, a string parsed as
\* JSON, undefined when the string does not parse
objOrParseJson(data) == IF data.form = "garbage" THEN [ok |-> FALSE] ELSE [ok |-> TRUE]

ShouldRestartAnyEvent(event, playerState, lp) ==
  LooseEqZero(playerState) /\ lp

\* line 160
ShouldRestart(event, playerState, lp) ==
  event = "infoDelivery" /\ LooseEqZero(playerState) /\ lp

\* lines 171-173
PlayerStateEvents(event, playerState) ==
  IF event = "infoDelivery" /\ LooseNotUndefined(playerState)
    THEN <<Dispatch(PlayerStateName(numberToString(playerState.n)))>>
    ELSE <<>>

\* lines 174-180
MutedEvents(event, muted) ==
  IF event = "infoDelivery" /\ Truthy(muted)
    THEN <<Dispatch(mutedOrUnmutedEvent(muted))>>
    ELSE <<>>

\* lines 152-157
MergeInfo(info, parsedInfo) ==
  [key \in DOMAIN info |->
    IF NotNullish(Get(parsedInfo, key)) THEN parsedInfo[key] ELSE info[key]]

\* what infoDelivery messages have sent for the tracked keys
Deliver(d, event, parsedInfo) ==
  IF event # "infoDelivery" THEN d
  ELSE LET K == {k \in DOMAIN createDefaultInfo : NotNullish(Get(parsedInfo, k))}
       IN [k \in DOMAIN d \cup K |-> IF k \in K THEN parsedInfo[k] ELSE d[k]]

OnMessageData(data) ==
  /\ status = "rendered"
  /\ last' = "onMessage"
  /\ IF ~objOrParseJson(data).ok
       THEN /\ lastMsg' = NoMsg
            /\ effects' = <<>>
            /\ UNCHANGED <<playerStateRef, delivered>>
       ELSE /\ lastMsg' = [parsed |-> TRUE, event |-> data.event, hasInfo |-> data.hasInfo,
                           playerState |-> Get(data.info, "playerState"),
                           muted |-> Get(data.info, "muted")]
            /\ IF data.event = "initialDelivery"
                 THEN /\ effects' = <<Dispatch("loadedmetadata")>>
                      /\ UNCHANGED <<playerStateRef, delivered>>
                 ELSE IF ~data.hasInfo
                   THEN /\ effects' = <<>>
                        /\ UNCHANGED <<playerStateRef, delivered>>
                   ELSE LET playerState == Get(data.info, "playerState")
                        IN /\ playerStateRef' = MergeInfo(playerStateRef, data.info)
                           /\ delivered' = Deliver(delivered, data.event, data.info)
                           /\ effects' =
                                (IF ShouldRestart(data.event, playerState, loopEff)
                                   THEN <<Post(PlayVideoCommand)>> ELSE <<>>)
                                \o PlayerStateEvents(data.event, playerState)
                                \o MutedEvents(data.event, Get(data.info, "muted"))
  /\ UNCHANGED <<props, params, status, renders, calls, paramsIn, src,
                 autoplayOut, loopEff, first>>

OnMessage ==
  \/ OnMessageData([form |-> "garbage", event |-> "", hasInfo |-> FALSE, info |-> EmptyObj])
  \/ \E form \in {"object", "json"}, event \in Events :
       OnMessageData([form |-> form, event |-> event, hasInfo |-> FALSE, info |-> EmptyObj])
  \/ \E event \in Events, ct \in TimeValues, du \in DurationValues :
       OnMessageData([form |-> "object", event |-> event, hasInfo |-> TRUE,
                      info |-> MkInfo(ct, du, Undefined, Undefined)])
  \/ \E event \in Events, ct \in {Undefined, Num(MaxTime)},
        ps \in StateValues \ {Undefined}, mu \in MutedValues :
       OnMessageData([form |-> "json", event |-> event, hasInfo |-> TRUE,
                      info |-> MkInfo(ct, Undefined, ps, mu)])

OnIframeLoadEffectsSwapped == <<Post(ListeningMessage), Dispatch("canplay")>>

\* lines 192-203
OnIframeLoadEffects == <<Dispatch("canplay"), Post(ListeningMessage)>>

OnIframeLoad ==
  /\ status = "rendered"
  /\ last' = "onIframeLoad"
  /\ effects' = OnIframeLoadEffects
  /\ UNCHANGED <<props, params, status, renders, calls, paramsIn, src, autoplayOut,
                 loopEff, first, playerStateRef, lastMsg, delivered>>

\* -------------------------------------------------------- specifications
InitCommon ==
  /\ status = "init"
  /\ renders = 0
  /\ calls = <<>>
  /\ paramsIn = params
  /\ src = NoUrl
  /\ autoplayOut = autoplay
  /\ loopEff = loop
  /\ first = [src |-> NoUrl, autoplay |-> autoplay, loop |-> loop]
  /\ playerStateRef = EmptyObj
  /\ last = "none"
  /\ lastMsg = NoMsg
  /\ effects = <<>>
  /\ delivered = EmptyObj

\* the message bridge: one mounted component, looping configured every way
Init ==
  /\ videoid \in IDs
  /\ liveChannelid = ""
  /\ credentials = ""
  /\ autoplay = FALSE
  /\ loop \in BOOLEAN
  /\ params \in LoopParamMaps
  /\ InitCommon

Next == Render \/ OnMessage \/ OnIframeLoad

Spec == Init /\ [][Next]_vars

\* the render function over every combination of props and params
InitRender ==
  /\ videoid \in IDs
  /\ liveChannelid \in IDs
  /\ credentials \in Credentials
  /\ autoplay \in BOOLEAN
  /\ loop \in BOOLEAN
  /\ params \in ParamMaps
  /\ InitCommon

NextRender == Render

SpecRender == InitRender /\ [][NextRender]_vars

TypeOK ==
  /\ status \in {"init", "rendered", "threw"}
  /\ renders \in 0..MaxRenders
  /\ last \in {"none", "render", "onMessage", "onIframeLoad"}
  /\ DOMAIN params \subseteq ParamKeys

\* ---------------------------------------------------------------- claims
Posts(e) == SelectSeq(e, LAMBDA x : x.kind = "postMessage")
StateDispatches(e) ==
  SelectSeq(e, LAMBDA x : x.kind = "dispatchCustomEvent"
                          /\ x.arg \notin {<<"muted">>, <<"unmuted">>, <<"loadedmetadata">>})
QueryValues(k) == {q[2] : q \in {x \in src.query : x[1] = k}}
TableCodes == {-1, 0, 1, 2, 3, 5}
TableName(n) ==
  CASE n = -1 -> "unstarted" [] n = 0 -> "ended" [] n = 1 -> "playing"
    [] n = 2 -> "pause" [] n = 3 -> "buffering" [] OTHER -> "video_cued"
InfoDeliveryHandled ==
  last = "onMessage" /\ lastMsg.parsed /\ lastMsg.event = "infoDelivery" /\ lastMsg.hasInfo

\* C1: a render succeeds exactly when one of videoid / liveChannelid is set;
\* otherwise it throws before getEmbedUrl is called, before params is
\* mutated and before the player-state record is created.
C1_DatasourceGate ==
  status # "init" =>
    /\ (status = "rendered") <=> ((videoid # "") # (liveChannelid # ""))
    /\ status = "threw" =>
         /\ calls = <<>>
         /\ src = NoUrl
         /\ params = paramsIn
         /\ playerStateRef = EmptyObj

C1_Witness ==
  /\ status = "threw"
  /\ videoid # "" /\ liveChannelid # ""
  /\ "autoplay" \in DOMAIN params

\* C2 (as claimed): a message whose event is neither initialDelivery nor
\* infoDelivery has no effect on the iframe and leaves the player-state
\* record unchanged.
C2_OtherEventsIgnored ==
  [][(last' = "onMessage" /\ lastMsg'.parsed
        /\ lastMsg'.event \notin {"initialDelivery", "infoDelivery"})
      => (effects' = <<>> /\ playerStateRef' = playerStateRef)]_vars

\* C3 (as claimed): an infoDelivery message whose playerState is a code
\* outside the table dispatches no player-state event.
C3_UnknownCodeIgnored ==
  (InfoDeliveryHandled /\ lastMsg.playerState.t = "number"
     /\ lastMsg.playerState.n \notin TableCodes)
    => StateDispatches(effects) = <<>>

\* C4: onMessage posts exactly one playVideo command when the message is an
\* infoDelivery with playerState 0 and looping is enabled for the render
\* that built the handler (loop prop, or a loop key in the params it
\* received); in every other case it posts nothing.
C4_RestartOnEnded ==
  last = "onMessage" =>
    Posts(effects) =
      IF /\ InfoDeliveryHandled
         /\ lastMsg.playerState = Num(0)
         /\ (loop \/ "loop" \in DOMAIN paramsIn)
        THEN <<Post(PlayVideoCommand)>>
        ELSE <<>>

C4_Witness ==
  /\ InfoDeliveryHandled
  /\ lastMsg.playerState = Num(0)
  /\ ~loop /\ "loop" \in DOMAIN paramsIn
  /\ Len(Posts(effects)) = 1

\* C5: an iframe load dispatches canplay once and posts listening once, and
\* every listening message has a canplay dispatch before it.
C5_CanplayBeforeListening ==
  last = "onIframeLoad" =>
    /\ Len(SelectSeq(effects, LAMBDA x : x = Dispatch("canplay"))) = 1
    /\ Len(SelectSeq(effects, LAMBDA x : x = Post(ListeningMessage))) = 1
    /\ \A i \in 1..Len(effects) :
         effects[i] = Post(ListeningMessage)
           => \E j \in 1..(i - 1) : effects[j] = Dispatch("canplay")

C5_Witness ==
  /\ last = "onIframeLoad"
  /\ Len(effects) = 2
  /\ effects[2].kind = "postMessage"

C7_AutoplayParams ==
  status = "rendered" =>
    LET effective == autoplay \/ "autoplay" \in DOMAIN paramsIn
        supplied(k) == IF k \in DOMAIN paramsIn THEN {paramsIn[k]} ELSE {}
    IN IF effective
         THEN /\ QueryValues("playsinline") = {"1"}
              /\ QueryValues("iv_load_policy") =
                   IF "iv_load_policy" \in DOMAIN paramsIn
                     THEN supplied("iv_load_policy") ELSE {"3"}
              /\ QueryValues("autoplay") = {}
         ELSE /\ QueryValues("playsinline") =
                   IF "playsinline" \in DOMAIN paramsIn
                     THEN supplied("playsinline") ELSE {"1"}
              /\ QueryValues("iv_load_policy") = supplied("iv_load_policy")

C7_Witness ==
  /\ status = "rendered"
  /\ ~autoplay /\ "autoplay" \in DOMAIN paramsIn
  /\ "playsinline" \in DOMAIN paramsIn /\ paramsIn["playsinline"] = "0"
  /\ "iv_load_policy" \notin DOMAIN paramsIn
  /\ <<"playsinline", "1">> \in src.query
  /\ <<"iv_load_policy", "3">> \in src.query

\* C8: the URL has a loop parameter, of value 1, exactly when looping is
\* effective and the params the render received have a playlist key.
C8_LoopParam ==
  status = "rendered" =>
    QueryValues("loop") =
      IF (loop \/ "loop" \in DOMAIN paramsIn) /\ "playlist" \in DOMAIN paramsIn
        THEN {"1"} ELSE {}

C8_Witness ==
  /\ status = "rendered"
  /\ "loop" \in DOMAIN paramsIn /\ paramsIn["loop"] = "0"
  /\ "playlist" \notin DOMAIN paramsIn
  /\ QueryValues("loop") = {}

\* C9: an infoDelivery message with an info payload whose playerState is a
\* table code dispatches exactly one player-state event, named by the
\* table; one without a playerState field dispatches none.
C9_StateEvent ==
  InfoDeliveryHandled =>
    /\ (lastMsg.playerState.t = "number" /\ lastMsg.playerState.n \in TableCodes)
         => StateDispatches(effects) = <<Dispatch(TableName(lastMsg.playerState.n))>>
    /\ lastMsg.playerState = Undefined => StateDispatches(effects) = <<>>

C9_Witness ==
  /\ InfoDeliveryHandled
  /\ lastMsg.playerState = Num(1)
  /\ Truthy(lastMsg.muted)
  /\ effects = <<Dispatch("playing"), Dispatch("muted")>>

\* C10 (as claimed): every render of the same props gives the src, the
\* autoplay flag and the loop flag of the first render.
C10_RenderIdempotent ==
  status = "rendered" =>
    /\ src = first.src
    /\ autoplayOut = first.autoplay
    /\ loopEff = first.loop
====
